---- MODULE Spec2Model ----
(***************************************************************************)
(* State-machine model of nnsight/tracing/protocols.py: the registry of    *)
(* protocols and the Apply-Submodule, Lock, Grad, Swap and Bridge          *)
(* protocols acting on graphs of nodes.                                    *)
(*                                                                         *)
(* A graph is built first (the add operations, phase "build") and then     *)
(* executed (the execute operations, the gradient callbacks and the        *)
(* consultations, phase "run").  The order in which the engine executes    *)
(* nodes is left open, except that a node is executed at most once, that   *)
(* Grad.execute and Apply-Submodule.execute find the nodes among their     *)
(* args resolved, and that a Bridge node runs after its source node has    *)
(* been executed.                                                          *)
(***************************************************************************)
EXTENDS Integers, Sequences, FiniteSets, TLC

(* ------------------------------ bounds -------------------------------- *)

\* Nodes created by GradProtocol.add / SwapProtocol.add in one behaviour.
MaxProtocolNodes == 3
\* Bridge nodes (each with its Lock node) created in one behaviour.
MaxBridges == 2
\* GradProtocol.increment calls in one behaviour, over all graphs.
MaxIncrements == 2
\* Gradient occurrences delivered to one Grad node's tensor.
MaxOccurrences == 3
\* Nodes of the graph on which all the protocols act together.
MaxNodes == 4
\* Nodes created by ApplyModuleProtocol.add in one behaviour.
MaxModuleNodes == 2

GraphIds == {1, 2}
Devices == {"cpu", "cuda"}

(* ------------------------------ values -------------------------------- *)

\* inspect._empty: the value of a node that has not been set (or was destroyed).
Unset == [tag |-> "unset", data |-> 0, device |-> "none"]
NoneValue == [tag |-> "None", data |-> 0, device |-> "none"]
TrueValue == [tag |-> "bool", data |-> 1, device |-> "none"]
FalseValue == [tag |-> "bool", data |-> 0, device |-> "none"]
Tensor(d, dev) == [tag |-> "tensor", data |-> d, device |-> dev]
Scalar(d) == [tag |-> "int", data |-> d, device |-> "none"]

\* Gradients delivered by the reverse traversal.
GradValues == {Tensor(1, "cpu"), Tensor(2, "cuda")}
\* Values handed to get_swap by a direct consultation.
ConsultValues == {Tensor(2, "cuda"), Scalar(3)}
\* The result of the plain node of graph g.
OpValue(g) == Tensor(10 + g, IF g = 1 THEN "cpu" ELSE "cuda")
\* Literal replacement values of Swap nodes.
SwapLiterals == {Tensor(5, "cpu"), Scalar(7)}

\* A placeholder (fake tensor) of the validation pass, and a string.
Fake(d, dev) == [tag |-> "fake", data |-> d, device |-> dev]
Str(p) == [tag |-> "str", data |-> p, device |-> "none"]

\* Root objects: a module with the device of its first parameter, "none" when
\* it has no parameters.
Module(id, dev) == [id |-> id, device |-> dev]
Roots == {Module(1, "cuda"), Module(2, "none")}
\* Attribute paths, by number: path 1 ("layer1") names a sub-module of every
\* root, path 2 names nothing.
ModulePaths == {1, 2}
HasAttr(m, p) == p = 1

\* "No node": the None of attachments.get(name, None).
NoNode == 0

\* An element of node.args: a reference to a node, or a literal.
NodeArg(n) == [kind |-> "node", ref |-> n, lit |-> Unset]
LitArg(v) == [kind |-> "lit", ref |-> NoNode, lit |-> v]
IntArg(i) == [kind |-> "int", ref |-> i, lit |-> Unset]

\* Attachment keys (the attachment_name of each protocol).
GradKey == "nnsight_backward_idx"
SwapKey == "nnsight_swap"
BridgeKey == "nnsight_bridge"
ModuleKey == "nnsight_root_module"

(* ------------------------------- state -------------------------------- *)

VARIABLES
    phase,        \* "build": nodes are added; "run": nodes are executed
    nodes,        \* sequence of nodes; a node's id (and name) is its index
    value,        \* node id -> value (Unset when absent)
    attachments,  \* graph id -> dict (a function on the keys present)
    release,      \* the Bridge directory's release flag
    executed,     \* ids of the nodes whose execute has run
    hooks,        \* Grad node id -> closure of its callback (dict)
    last,         \* the last operation: its set_value calls and its error
    hist,         \* bookkeeping per node for the properties (not program state)
    incs,         \* bookkeeping: GradProtocol.increment calls per graph
    spent,        \* bookkeeping per graph: 0 until a consultation returns a
                  \* replacement, then 1, and 2 once consulted again; 0 again
                  \* when a Swap node executes on the graph
    validate,     \* graph id -> graph.validate
    proxy_value,  \* node id -> proxy_value (Unset for inspect._empty)
    PROTOCOLS     \* the registry: a dict from protocol name to protocol

vars == <<phase, nodes, value, attachments, release, executed, hooks, last, hist,
          incs, spent, validate, proxy_value, PROTOCOLS>>

NodeIds == 1..(Cardinality(GraphIds) + MaxProtocolNodes + 2 * MaxBridges + MaxModuleNodes)
Ids == 1..Len(nodes)

\* dict.get(key, default) and dict[key] = v on a function whose domain is the keys.
Get(d, k, default) == IF k \in DOMAIN d THEN d[k] ELSE default
Put(d, k, v) == [x \in (DOMAIN d) \cup {k} |-> IF x = k THEN v ELSE d[x]]

\* What the last operation did: the set_value calls it made, in order, the
\* error it raised, and the forward calls it made on sub-computations.
Done(ws) == [writes |-> ws, error |-> "none", calls |-> <<>>]
Raised(e) == [writes |-> <<>>, error |-> e, calls |-> <<>>]
NoOp == Done(<<>>)

Write(n, v) == [node |-> n, v |-> v]

\* node.set_value(v) for each write of ws in order.
RECURSIVE SetValues(_, _)
SetValues(val, ws) ==
    IF ws = <<>> THEN val
    ELSE SetValues([val EXCEPT ![Head(ws).node] = Head(ws).v], Tail(ws))

\* The bookkeeping after an operation that made the set_value calls ws.
Counted(h, ws) ==
    [n \in NodeIds |->
        [h[n] EXCEPT !.sets = @ + Cardinality({i \in 1..Len(ws) : ws[i].node = n})]]

\* graph.create / node.create: the new node is appended to its graph under a name
\* unique within the graph; it becomes a listener of every node among its args.
NodeRecord(g, name, target, args) ==
    [graph |-> g, name |-> name, target |-> target, args |-> args]

NewNode(nds, g, target, args) ==
    NodeRecord(g, Cardinality({m \in 1..Len(nds) : nds[m].graph = g}) + 1, target, args)

\* The nodes that listen to n: those that have n among their args.
Listeners(n) ==
    {l \in Ids : \E i \in 1..Len(nodes[l].args) :
        nodes[l].args[i].kind = "node" /\ nodes[l].args[i].ref = n}

\* node.attached(): whether a listener is registered on the node.
attached(n) == Listeners(n) # {}

\* Bookkeeping per node: gradient occurrences at the node's tensor since its hook
\* was registered (occ), invocations of its callback (calls) and captures (caps),
\* the same two within the current reverse traversal (travCalls, travCaps),
\* set_value calls on the node (sets), the increments of its graph before the
\* node was added (born), the number of consultations that returned its
\* replacement (fired), and for a Bridge node the node it was added to transfer
\* from (from) and the Lock node added with it (lock).
HistInit == [occ |-> 0, calls |-> 0, caps |-> 0, travCalls |-> 0, travCaps |-> 0,
             sets |-> 0, born |-> 0, fired |-> 0, from |-> NoNode, lock |-> NoNode]

\* register_protocol(protocol): PROTOCOLS[protocol.name] = protocol, on a registry
\* reg; a protocol is a class with its name.
Protocol(name, class) == [name |-> name, class |-> class]
Registered(reg, protocol) == Put(reg, protocol.name, protocol.class)

\* The classes decorated with @register_protocol, in the order of the file.
Builtins ==
    <<Protocol("module", "ApplyModuleProtocol"), Protocol("lock", "LockProtocol"),
      Protocol("grad", "GradProtocol"), Protocol("swap", "SwapProtocol"),
      Protocol("bridge", "BridgeProtocol")>>

\* The registry after the first k decorators have run, from the empty dict.
RECURSIVE RegistryAfter(_)
RegistryAfter(k) ==
    IF k = 0 THEN <<>> ELSE Registered(RegistryAfter(k - 1), Builtins[k])

\* Before construction: the graphs hold the plain nodes plain, nothing is
\* attached, and the Bridge directory has one of the release flags.
InitWith(plain, flags) ==
    /\ phase = "build"
    /\ nodes = plain
    /\ value = [n \in NodeIds |-> Unset]
    /\ attachments = [g \in GraphIds |-> <<>>]
    /\ release \in flags
    /\ executed = {}
    /\ hooks = <<>>
    /\ last = NoOp
    /\ hist = [n \in NodeIds |-> HistInit]
    /\ incs = [g \in GraphIds |-> 0]
    /\ spent = [g \in GraphIds |-> 0]
    /\ validate = [g \in GraphIds |-> FALSE]
    /\ proxy_value = [n \in NodeIds |-> Unset]
    /\ PROTOCOLS = RegistryAfter(Len(Builtins))

\* One plain node in each graph.
Init == InitWith(<<NodeRecord(1, 1, "op", <<>>), NodeRecord(2, 1, "op", <<>>)>>, BOOLEAN)

\* No bridge in use: the release flag plays no part.
InitSwap == InitWith(<<NodeRecord(1, 1, "op", <<>>), NodeRecord(2, 1, "op", <<>>)>>, {FALSE})

\* One plain node (a tensor) in graph 1; graph 2 is empty.
InitGrad == InitWith(<<NodeRecord(1, 1, "op", <<>>)>>, {FALSE})

\* One plain node in each graph; each graph validating or not, the plain node
\* of a validating graph with its placeholder.
InitModule ==
    /\ phase = "build"
    /\ nodes = <<NodeRecord(1, 1, "op", <<>>), NodeRecord(2, 1, "op", <<>>)>>
    /\ value = [n \in NodeIds |-> Unset]
    /\ attachments = [g \in GraphIds |-> <<>>]
    /\ release = FALSE
    /\ executed = {}
    /\ hooks = <<>>
    /\ last = NoOp
    /\ hist = [n \in NodeIds |-> HistInit]
    /\ incs = [g \in GraphIds |-> 0]
    /\ spent = [g \in GraphIds |-> 0]
    /\ validate \in [GraphIds -> BOOLEAN]
    /\ proxy_value = [n \in NodeIds |->
                        IF n \in GraphIds /\ validate[n]
                        THEN Fake(OpValue(n).data, OpValue(n).device) ELSE Unset]
    /\ PROTOCOLS = RegistryAfter(Len(Builtins))

NodesOf(targets) == {n \in Ids : nodes[n].target \in targets}

(* --------------------------- graph construction ----------------------- *)

\* GradProtocol.add(node): args = [node, backward_idx], the per-graph counter
\* read with default 0.
GradProtocol_add(n) ==
    /\ phase = "build"
    /\ n \in NodesOf({"op"})
    /\ Cardinality(NodesOf({"grad", "swap"})) < MaxProtocolNodes
    /\ LET g == nodes[n].graph
           backward_idx == Get(attachments[g], GradKey, 0)
           new == Len(nodes) + 1
       IN /\ nodes' = Append(nodes,
                 NewNode(nodes, g, "grad", <<NodeArg(n), IntArg(backward_idx)>>))
          /\ proxy_value' = [proxy_value EXCEPT ![new] = proxy_value[n]]
          /\ hist' = [hist EXCEPT ![new].born = incs[g]]
          /\ last' = NoOp
    /\ UNCHANGED <<phase, value, attachments, release, executed, hooks, incs, spent>>
    /\ UNCHANGED <<validate, PROTOCOLS>>

\* GradProtocol.increment as it would be storing 1 whatever the counter holds.
GradProtocol_increment_toOne(g) ==
    /\ incs[1] + incs[2] < MaxIncrements
    /\ attachments' = [attachments EXCEPT ![g] = Put(@, GradKey, 1)]
    /\ incs' = [incs EXCEPT ![g] = @ + 1]
    /\ hist' = [n \in NodeIds |->
                  IF n \in Ids /\ nodes[n].graph = g
                  THEN [hist[n] EXCEPT !.travCalls = 0, !.travCaps = 0]
                  ELSE hist[n]]
    /\ last' = NoOp
    /\ UNCHANGED <<phase, nodes, value, release, executed, hooks, spent>>
    /\ UNCHANGED <<validate, PROTOCOLS, proxy_value>>

\* GradProtocol.increment(graph): the counter read with default 0, plus one.  It
\* marks the start of a reverse traversal: the per-traversal bookkeeping of the
\* graph's nodes starts again.
GradProtocol_increment(g) ==
    /\ incs[1] + incs[2] < MaxIncrements
    /\ LET backward_idx == Get(attachments[g], GradKey, 0)
       IN attachments' = [attachments EXCEPT ![g] = Put(@, GradKey, backward_idx + 1)]
    /\ incs' = [incs EXCEPT ![g] = @ + 1]
    /\ hist' = [n \in NodeIds |->
                  IF n \in Ids /\ nodes[n].graph = g
                  THEN [hist[n] EXCEPT !.travCalls = 0, !.travCaps = 0]
                  ELSE hist[n]]
    /\ last' = NoOp
    /\ UNCHANGED <<phase, nodes, value, release, executed, hooks, spent>>
    /\ UNCHANGED <<validate, PROTOCOLS, proxy_value>>

\* The replacements a Swap node may be given: a literal, or a reference to a
\* plain node of the same graph (unwrapped to its value when the swap fires).
SwapArgs(g) ==
    {LitArg(v) : v \in SwapLiterals}
        \cup {NodeArg(m) : m \in {x \in NodesOf({"op"}) : nodes[x].graph = g}}

\* SwapProtocol.add(node, value): args = [node, value].
SwapProtocol_add(n, arg) ==
    /\ phase = "build"
    /\ n \in NodesOf({"op", "grad"})
    /\ arg \in SwapArgs(nodes[n].graph)
    /\ Cardinality(NodesOf({"grad", "swap"})) < MaxProtocolNodes
    /\ nodes' = Append(nodes, NewNode(nodes, nodes[n].graph, "swap", <<NodeArg(n), arg>>))
    /\ proxy_value' = [proxy_value EXCEPT ![Len(nodes) + 1] = TrueValue]
    /\ last' = NoOp
    /\ UNCHANGED <<phase, value, attachments, release, executed, hooks, hist, incs, spent>>
    /\ UNCHANGED <<validate, PROTOCOLS>>

\* LockProtocol.add(node): a new node in the node's graph, args = [node]; its
\* proxy_value is None.
LockProtocol_add(nds, n) == NewNode(nds, nds[n].graph, "lock", <<NodeArg(n)>>)

\* BridgeProtocol.add as it would be reusing a Lock already on from_node.
BridgeProtocol_add_sharedLock(from_node, to_node) ==
    /\ phase = "build"
    /\ from_node \in NodesOf({"op"})
    /\ to_node \in Ids
    /\ Cardinality(NodesOf({"bridge"})) < MaxBridges
    /\ LET old == {l \in NodesOf({"lock"}) : nodes[l].args[1].ref = from_node}
           withLock == IF old = {} THEN Append(nodes, LockProtocol_add(nodes, from_node))
                       ELSE nodes
           lock == IF old = {} THEN Len(nodes) + 1 ELSE CHOOSE l \in old : TRUE
       IN /\ nodes' = Append(withLock,
                 NewNode(withLock, nodes[to_node].graph, "bridge",
                         <<IntArg(nodes[from_node].graph), IntArg(withLock[lock].name)>>))
          /\ hist' = [hist EXCEPT ![Len(withLock) + 1].from = from_node,
                                  ![Len(withLock) + 1].lock = lock]
          /\ proxy_value' = [proxy_value EXCEPT ![lock] = NoneValue,
                                  ![Len(withLock) + 1] = proxy_value[from_node]]
    /\ last' = NoOp
    /\ UNCHANGED <<phase, value, attachments, release, executed, hooks, incs, spent>>
    /\ UNCHANGED <<validate, PROTOCOLS>>

\* BridgeProtocol.add(from_node, to_node): a Lock on from_node, then a node in
\* to_node's graph with args = [from_node.graph.id, lock_node.name] and the
\* proxy_value of from_node.
BridgeProtocol_add(from_node, to_node) ==
    /\ phase = "build"
    /\ from_node \in NodesOf({"op"})
    /\ to_node \in Ids
    /\ Cardinality(NodesOf({"bridge"})) < MaxBridges
    /\ LET lock_node == LockProtocol_add(nodes, from_node)
           withLock == Append(nodes, lock_node)
       IN nodes' = Append(withLock,
              NewNode(withLock, nodes[to_node].graph, "bridge",
                      <<IntArg(nodes[from_node].graph), IntArg(lock_node.name)>>))
    /\ hist' = [hist EXCEPT ![Len(nodes) + 2].from = from_node,
                            ![Len(nodes) + 2].lock = Len(nodes) + 1]
    /\ proxy_value' = [proxy_value EXCEPT ![Len(nodes) + 1] = NoneValue,
                            ![Len(nodes) + 2] = proxy_value[from_node]]
    /\ last' = NoOp
    /\ UNCHANGED <<phase, value, attachments, release, executed, hooks, incs, spent>>
    /\ UNCHANGED <<validate, PROTOCOLS>>

\* BridgeProtocol.set_bridge(graph, bridge): the directory under the reserved key.
BridgeProtocol_set_bridge(g) ==
    /\ phase = "build"
    /\ attachments' = [attachments EXCEPT ![g] = Put(@, BridgeKey, "bridge")]
    /\ last' = NoOp
    /\ UNCHANGED <<phase, nodes, value, release, executed, hooks, hist, incs, spent>>
    /\ UNCHANGED <<validate, PROTOCOLS, proxy_value>>

\* Construction is over; the engine starts executing.
StartRun ==
    /\ phase = "build"
    /\ phase' = "run"
    /\ last' = NoOp
    /\ UNCHANGED <<nodes, value, attachments, release, executed, hooks, hist, incs, spent>>
    /\ UNCHANGED <<validate, PROTOCOLS, proxy_value>>

(* ------------------------------ execution ----------------------------- *)

\* The engine executes a plain node: its result is published by set_value.
ExecuteOp(n) ==
    /\ phase = "run"
    /\ n \in NodesOf({"op"}) \ executed
    /\ LET ws == <<Write(n, OpValue(nodes[n].graph))>>
       IN /\ value' = SetValues(value, ws)
          /\ hist' = Counted(hist, ws)
          /\ last' = Done(ws)
    /\ executed' = executed \cup {n}
    /\ UNCHANGED <<phase, nodes, attachments, release, hooks, incs, spent>>
    /\ UNCHANGED <<validate, PROTOCOLS, proxy_value>>

\* The engine's liveness analysis: a value is discarded once every listener of
\* its node is resolved (has a value); a node with an unresolved listener (a
\* Lock, for one) keeps its value.
EngineDiscard(n) ==
    /\ phase = "run"
    /\ n \in Ids
    /\ value[n] # Unset
    /\ Listeners(n) # {}
    /\ \A l \in Listeners(n) : value[l] # Unset
    /\ value' = [value EXCEPT ![n] = Unset]
    /\ last' = NoOp
    /\ UNCHANGED <<phase, nodes, attachments, release, executed, hooks, hist, incs, spent>>
    /\ UNCHANGED <<validate, PROTOCOLS, proxy_value>>

\* Protocol.execute, inherited by LockProtocol: pass.
LockProtocol_execute(n) ==
    /\ phase = "run"
    /\ n \in NodesOf({"lock"}) \ executed
    /\ executed' = executed \cup {n}
    /\ last' = NoOp
    /\ UNCHANGED <<phase, nodes, value, attachments, release, hooks, hist, incs, spent>>
    /\ UNCHANGED <<validate, PROTOCOLS, proxy_value>>

(* -------------------------------- Swap -------------------------------- *)

\* SwapProtocol.execute as it would be without set_value(False) on the graph's
\* current swap.
SwapProtocol_execute_keepsOld(n) ==
    /\ phase = "run"
    /\ n \in NodesOf({"swap"}) \ executed
    /\ attachments' = [attachments EXCEPT ![nodes[n].graph] = Put(@, SwapKey, n)]
    /\ last' = Done(<<>>)
    /\ spent' = [spent EXCEPT ![nodes[n].graph] = 0]
    /\ executed' = executed \cup {n}
    /\ UNCHANGED <<phase, nodes, value, release, hooks, hist, incs>>
    /\ UNCHANGED <<validate, PROTOCOLS, proxy_value>>

\* SwapProtocol.execute(node): the graph's current swap, if any, gets the value
\* False; the node becomes the graph's swap.
SwapProtocol_execute(n) ==
    /\ phase = "run"
    /\ n \in NodesOf({"swap"}) \ executed
    /\ LET g == nodes[n].graph
           swap == Get(attachments[g], SwapKey, NoNode)
           ws == IF swap # NoNode THEN <<Write(swap, FalseValue)>> ELSE <<>>
       IN /\ value' = SetValues(value, ws)
          /\ attachments' = [attachments EXCEPT ![g] = Put(@, SwapKey, n)]
          /\ hist' = Counted(hist, ws)
          /\ last' = Done(ws)
          /\ spent' = [spent EXCEPT ![g] = 0]
    /\ executed' = executed \cup {n}
    /\ UNCHANGED <<phase, nodes, release, hooks, incs>>
    /\ UNCHANGED <<validate, PROTOCOLS, proxy_value>>

\* util.apply(swap.args[1], lambda x: x.value, Node): a node is replaced by its value.
Unwrap(arg, val) == IF arg.kind = "node" THEN val[arg.ref] ELSE arg.lit

\* util.apply(value, _to, torch.Tensor): tensors move to the device, the rest stays.
To(v, device) == IF v.tag = "tensor" THEN [v EXCEPT !.device = device] ELSE v

\* get_swap as it would be returning the value it was given.
get_swap_returnsInput(att, val, g, v) ==
    LET swap == Get(att[g], SwapKey, NoNode)
    IN IF swap # NoNode
       THEN [ret |-> v, swap |-> swap, writes |-> <<Write(swap, TrueValue)>>,
             attachments |-> [att EXCEPT ![g] = Put(@, SwapKey, NoNode)]]
       ELSE [ret |-> v, swap |-> NoNode, writes |-> <<>>, attachments |-> att]

\* get_swap as it would be without "Un-set swap": the swap stays the graph's swap.
get_swap_keepsSwap(att, val, g, v) ==
    LET swap == Get(att[g], SwapKey, NoNode)
    IN IF swap # NoNode
       THEN LET device == IF v.tag = "tensor" THEN v.device ELSE "none"
                unwrapped == Unwrap(nodes[swap].args[2], val)
                moved == IF device # "none" THEN To(unwrapped, device) ELSE unwrapped
            IN [ret |-> moved, swap |-> swap,
                writes |-> <<Write(swap, TrueValue)>>, attachments |-> att]
       ELSE [ret |-> v, swap |-> NoNode, writes |-> <<>>, attachments |-> att]

\* SwapProtocol.get_swap(graph, value) on attachments att and node values val:
\* the value returned, the swap consulted and the set_value calls made.
get_swap(att, val, g, v) ==
    LET swap == Get(att[g], SwapKey, NoNode)
    IN IF swap # NoNode
       THEN LET device == IF v.tag = "tensor" THEN v.device ELSE "none"
                unwrapped == Unwrap(nodes[swap].args[2], val)
                moved == IF device # "none" THEN To(unwrapped, device) ELSE unwrapped
            IN [ret |-> moved, swap |-> swap,
                writes |-> <<Write(swap, TrueValue)>>,
                attachments |-> [att EXCEPT ![g] = Put(@, SwapKey, NoNode)]]
       ELSE [ret |-> v, swap |-> NoNode, writes |-> <<>>, attachments |-> att]

\* The bookkeeping after a consultation of graph g that fired swap node s (or
\* none).
Fired(h, s) == IF s = NoNode THEN h ELSE [h EXCEPT ![s].fired = @ + 1]
Consulted(sp, g, s) ==
    [sp EXCEPT ![g] = IF s # NoNode THEN 1 ELSE IF @ >= 1 THEN 2 ELSE 0]

\* A consultation of the graph's swap by a caller other than a Grad callback.
SwapProtocol_get_swap(g, v) ==
    /\ phase = "run"
    /\ LET r == get_swap(attachments, value, g, v)
       IN /\ value' = SetValues(value, r.writes)
          /\ attachments' = r.attachments
          /\ hist' = Fired(Counted(hist, r.writes), r.swap)
          /\ last' = Done(r.writes)
          /\ spent' = Consulted(spent, g, r.swap)
    /\ UNCHANGED <<phase, nodes, release, executed, hooks, incs>>
    /\ UNCHANGED <<validate, PROTOCOLS, proxy_value>>

(* -------------------------------- Grad -------------------------------- *)

\* GradProtocol.execute(node): the closure captures backward_idx = args[1] and
\* registers the callback on the tensor (the resolved args[0]).
GradProtocol_execute(n) ==
    /\ phase = "run"
    /\ n \in NodesOf({"grad"}) \ executed
    /\ value[nodes[n].args[1].ref] # Unset
    /\ hooks' = Put(hooks, n, [backward_idx |-> nodes[n].args[2].ref,
                               registered |-> TRUE])
    /\ executed' = executed \cup {n}
    /\ last' = NoOp
    /\ UNCHANGED <<phase, nodes, value, attachments, release, hist, incs, spent>>
    /\ UNCHANGED <<validate, PROTOCOLS, proxy_value>>

\* The test of the callback, as it would be one occurrence early.
GradCaptures_early(h) == h.backward_idx <= 1

\* "if backward_idx == 0": the callback captures.
GradCaptures(h) == h.backward_idx = 0

\* The closure after a capture, as it would be without "backward_idx = -1" and
\* "hook.remove()".
GradCaptured_stays == [backward_idx |-> 0, registered |-> TRUE]

\* The closure after a capture: backward_idx = -1, and hook.remove().
GradCaptured == [backward_idx |-> -1, registered |-> FALSE]

\* The closure after a counting invocation, as it would be counting two.
GradCounted_two(h) == [h EXCEPT !.backward_idx = @ - 2]

\* The closure after a counting invocation: backward_idx -= 1.
GradCounted(h) == [h EXCEPT !.backward_idx = @ - 1]

\* The test before the consultation, as it would be without node.attached().
GradConsults_always(n) == TRUE

\* "if node.attached()": the capturing callback consults the graph's swap.
GradConsults(n) == attached(n)

\* One invocation grad(value) of node n's callback: what it returns (NoneValue
\* for Python's None), the closure afterwards, and the set_value calls and the
\* consultation it made.
grad(n, v) ==
    LET h == hooks[n]
    IN IF GradCaptures(h)
       THEN LET own == <<Write(n, v)>>
                r == IF GradConsults(n)
                     THEN get_swap(attachments, SetValues(value, own), nodes[n].graph, v)
                     ELSE [ret |-> v, swap |-> NoNode, writes |-> <<>>,
                           attachments |-> attachments]
            IN [ret |-> r.ret, swap |-> r.swap, writes |-> own \o r.writes,
                attachments |-> r.attachments, captured |-> TRUE,
                consulted |-> GradConsults(n),
                hook |-> GradCaptured]
       ELSE [ret |-> NoneValue, swap |-> NoNode, writes |-> <<>>,
             attachments |-> attachments, captured |-> FALSE, consulted |-> FALSE,
             hook |-> GradCounted(h)]

\* The gradient that travels on after a callback returned ret for the gradient
\* inp: a callback that returns None leaves the gradient as it is.
Propagated(inp, ret) == IF ret = NoneValue THEN inp ELSE ret

\* The reverse traversal produces a gradient v for the tensor of Grad node n:
\* the callback runs if it is still registered on the tensor.
GradOccurrence(n, v) ==
    /\ phase = "run"
    /\ n \in DOMAIN hooks
    /\ hist[n].occ < MaxOccurrences
    /\ IF hooks[n].registered
       THEN LET r == grad(n, v)
                c == IF r.captured THEN 1 ELSE 0
            IN /\ value' = SetValues(value, r.writes)
               /\ attachments' = r.attachments
               /\ hooks' = [hooks EXCEPT ![n] = r.hook]
               /\ hist' = [Fired(Counted(hist, r.writes), r.swap) EXCEPT
                              ![n].occ = @ + 1, ![n].calls = @ + 1,
                              ![n].travCalls = @ + 1,
                              ![n].caps = @ + c, ![n].travCaps = @ + c]
               /\ last' = Done(r.writes)
               /\ spent' = IF r.consulted
                            THEN Consulted(spent, nodes[n].graph, r.swap)
                            ELSE spent
       ELSE /\ hist' = [hist EXCEPT ![n].occ = @ + 1]
            /\ last' = NoOp
            /\ UNCHANGED <<value, attachments, hooks, spent>>
    /\ UNCHANGED <<phase, nodes, release, executed, incs>>
    /\ UNCHANGED <<validate, PROTOCOLS, proxy_value>>

(* ------------------------------- Bridge ------------------------------- *)

\* BridgeProtocol.has_bridge(graph)
has_bridge(g) == BridgeKey \in DOMAIN attachments[g]

\* get_bridge as it would be handing out the directory with no bridge attached.
get_bridge_silent(g) == "bridge"

\* BridgeProtocol.get_bridge(graph): the check of has_bridge only passes; then
\* attachments[attachment_name] is read, which raises KeyError when the key is
\* absent.
get_bridge(g) == IF has_bridge(g) THEN "bridge" ELSE "KeyError"

\* bridge.get_graph(id).nodes[name]: the node of that name in that graph.
LookupNode(g, name) == CHOOSE m \in Ids : nodes[m].graph = g /\ nodes[m].name = name

\* The set_value calls of BridgeProtocol.execute, as they would be with the
\* value taken from the lock node itself.
BridgeWrites_fromLock(n) ==
    LET lock_node == LookupNode(nodes[n].args[1].ref, nodes[n].args[2].ref)
    IN <<Write(n, value[lock_node])>>
           \o (IF release THEN <<Write(lock_node, NoneValue)>> ELSE <<>>)

\* The set_value calls of BridgeProtocol.execute, as they would be with the
\* lock released before the transfer.
BridgeWrites_releaseFirst(n) ==
    LET lock_node == LookupNode(nodes[n].args[1].ref, nodes[n].args[2].ref)
        value_node == nodes[lock_node].args[1].ref
    IN (IF release THEN <<Write(lock_node, NoneValue)>> ELSE <<>>)
           \o <<Write(n, value[value_node])>>

\* The set_value calls of BridgeProtocol.execute(node), in order: the node gets
\* the value of the lock's argument; with release, the lock then gets None.
BridgeWrites(n) ==
    LET from_graph_id == nodes[n].args[1].ref
        lock_node_name == nodes[n].args[2].ref
        lock_node == LookupNode(from_graph_id, lock_node_name)
        value_node == nodes[lock_node].args[1].ref
    IN <<Write(n, value[value_node])>>
           \o (IF release THEN <<Write(lock_node, NoneValue)>> ELSE <<>>)

\* BridgeProtocol.execute(node).  The engine runs it once the node it was added
\* to transfer from has been executed.  An error of get_bridge ends it before
\* anything is set.
BridgeProtocol_execute(n) ==
    /\ phase = "run"
    /\ n \in NodesOf({"bridge"}) \ executed
    /\ hist[n].from \in executed
    /\ executed' = executed \cup {n}
    /\ IF get_bridge(nodes[n].graph) = "bridge"
       THEN LET ws == BridgeWrites(n)
            IN /\ value' = SetValues(value, ws)
               /\ hist' = Counted(hist, ws)
               /\ last' = Done(ws)
       ELSE /\ last' = Raised(get_bridge(nodes[n].graph))
            /\ UNCHANGED <<value, hist>>
    /\ UNCHANGED <<phase, nodes, attachments, release, hooks, incs, spent>>
    /\ UNCHANGED <<validate, PROTOCOLS, proxy_value>>

(* --------------------------- Apply-Submodule -------------------------- *)

\* ApplyModuleProtocol.set_module(graph, module).
ApplyModuleProtocol_set_module(g, m) ==
    /\ phase = "build"
    /\ attachments' = [attachments EXCEPT ![g] = Put(@, ModuleKey, m)]
    /\ last' = NoOp
    /\ UNCHANGED <<phase, nodes, value, release, executed, hooks, hist, incs, spent>>
    /\ UNCHANGED <<validate, PROTOCOLS, proxy_value>>

\* What a call returns or raises, with the forward calls it made.
Returned(v, cs) == [error |-> "none", ret |-> v, calls |-> cs]
Failed(e) == [error |-> e, ret |-> Unset, calls |-> <<>>]

\* get_module as it would be reading the attachment with a default of None.
get_module_default(g) == Returned(Get(attachments[g], ModuleKey, NoneValue), <<>>)

\* ApplyModuleProtocol.get_module(graph): graph.attachments[attachment_name],
\* the KeyError of the dict when nothing is stored under the key.
get_module(g) ==
    IF ModuleKey \in DOMAIN attachments[g]
    THEN Returned(attachments[g][ModuleKey], <<>>)
    ELSE Failed("KeyError")

\* module.forward(*args): the result is a placeholder when an argument is one.
RECURSIVE SumData(_)
SumData(xs) == IF xs = <<>> THEN 0 ELSE Head(xs).data + SumData(Tail(xs))
Forward(m, p, xs) ==
    [tag |-> IF \E i \in 1..Len(xs) : xs[i].tag = "fake" THEN "fake" ELSE "tensor",
     data |-> 100 * m.id + 10 * p + SumData(xs),
     device |-> IF m.device # "none" THEN m.device ELSE xs[1].device]

\* One forward call, as recorded in last.calls.
Call(m, p, xs) == [module |-> m, path |-> p, args |-> xs]

\* ApplyModuleProtocol.call_module(graph, module_path, *args):
\* util.fetch_attr(get_module(graph), module_path).forward(*args).
call_module(g, module_path, xs) ==
    LET module == get_module(g)
    IN IF module.error # "none" THEN Failed(module.error)
       ELSE IF module.ret \notin Roots \/ ~HasAttr(module.ret, module_path)
            THEN Failed("AttributeError")
            ELSE Returned(Forward(module.ret, module_path, xs),
                          <<Call(module.ret, module_path, xs)>>)

\* Node.prepare_proxy_values(args, device): a Node gives its proxy_value, and a
\* tensor becomes a placeholder, on the device when the device is known.
prepare_proxy_values(args, device) ==
    [i \in 1..Len(args) |->
        LET v == IF args[i].kind = "node" THEN proxy_value[args[i].ref] ELSE args[i].lit
        IN IF v.tag \in {"tensor", "fake"}
           THEN Fake(v.data, IF device = "none" THEN v.device ELSE device)
           ELSE v]

\* The arguments after the path that add is given: a plain node of the graph, a
\* tensor, or a plain node and a number.
ModuleArgs(g) ==
    LET ops == {x \in NodesOf({"op"}) : nodes[x].graph = g}
    IN {<<NodeArg(x)>> : x \in ops} \cup {<<LitArg(Tensor(5, "cpu"))>>}
           \cup {<<NodeArg(x), LitArg(Scalar(7))>> : x \in ops}

\* The device as it would be with a fallback to the cpu.
ResolveDevice_cpu(g) ==
    LET module == get_module(g)
    IN IF module.error = "none" /\ module.ret \in Roots /\ module.ret.device # "none"
       THEN module.ret.device ELSE "cpu"

\* The device add resolves: next(get_module(graph).parameters()).device, and
\* None (here "none") when get_module raises or the root has no parameters.
ResolveDevice(g) ==
    LET module == get_module(g)
    IN IF module.error = "none" /\ module.ret \in Roots /\ module.ret.device # "none"
       THEN module.ret.device ELSE "none"

\* ApplyModuleProtocol.add as it would be invoking the sub-computation whether
\* or not the graph validates.
ApplyModuleProtocol_add_always(g, module_path, args) ==
    /\ phase = "build"
    /\ args \in ModuleArgs(g)
    /\ Cardinality(NodesOf({"module"})) < MaxModuleNodes
    /\ LET device == ResolveDevice(g)
           r == IF TRUE
                THEN call_module(g, module_path, prepare_proxy_values(args, device))
                ELSE Returned(Unset, <<>>)
       IN IF r.error = "none"
          THEN /\ nodes' = Append(nodes,
                      NewNode(nodes, g, "module", <<LitArg(Str(module_path))>> \o args))
               /\ proxy_value' = [proxy_value EXCEPT ![Len(nodes) + 1] = r.ret]
               /\ last' = [writes |-> <<>>, error |-> "none", calls |-> r.calls]
          ELSE /\ last' = Raised(r.error)
               /\ UNCHANGED <<nodes, proxy_value>>
    /\ UNCHANGED <<phase, value, attachments, release, executed, hooks, hist, incs, spent>>
    /\ UNCHANGED <<validate, PROTOCOLS>>

\* ApplyModuleProtocol.add(graph, module_path, *args).  A validating graph has
\* the device resolved from the root's parameters (None, here "none", when that
\* raises) and the sub-computation called on placeholders; an error of that call
\* ends add before graph.create.  The node has args = [module_path] + args.
ApplyModuleProtocol_add(g, module_path, args) ==
    /\ phase = "build"
    /\ args \in ModuleArgs(g)
    /\ Cardinality(NodesOf({"module"})) < MaxModuleNodes
    /\ LET device == ResolveDevice(g)
           r == IF validate[g]
                THEN call_module(g, module_path, prepare_proxy_values(args, device))
                ELSE Returned(Unset, <<>>)
       IN IF r.error = "none"
          THEN /\ nodes' = Append(nodes,
                      NewNode(nodes, g, "module", <<LitArg(Str(module_path))>> \o args))
               /\ proxy_value' = [proxy_value EXCEPT ![Len(nodes) + 1] = r.ret]
               /\ last' = [writes |-> <<>>, error |-> "none", calls |-> r.calls]
          ELSE /\ last' = Raised(r.error)
               /\ UNCHANGED <<nodes, proxy_value>>
    /\ UNCHANGED <<phase, value, attachments, release, executed, hooks, hist, incs, spent>>
    /\ UNCHANGED <<validate, PROTOCOLS>>

\* node.prepare_inputs(): the args with every Node replaced by its value.
prepare_inputs(n) == [i \in 1..Len(nodes[n].args) |-> Unwrap(nodes[n].args[i], value)]

\* ApplyModuleProtocol.execute as it would be passing the path on among the
\* arguments.
ApplyModuleProtocol_execute_passesPath(n) ==
    /\ phase = "run"
    /\ n \in NodesOf({"module"}) \ executed
    /\ \A i \in 1..Len(nodes[n].args) :
          nodes[n].args[i].kind = "node" => value[nodes[n].args[i].ref] # Unset
    /\ LET args == prepare_inputs(n)
           module_path == Head(args).data
           r == call_module(nodes[n].graph, module_path, args)
       IN IF r.error = "none"
          THEN LET ws == <<Write(n, r.ret)>>
               IN /\ value' = SetValues(value, ws)
                  /\ hist' = Counted(hist, ws)
                  /\ last' = [writes |-> ws, error |-> "none", calls |-> r.calls]
          ELSE /\ last' = Raised(r.error)
               /\ UNCHANGED <<value, hist>>
    /\ executed' = executed \cup {n}
    /\ UNCHANGED <<phase, nodes, attachments, release, hooks, incs, spent>>
    /\ UNCHANGED <<validate, PROTOCOLS, proxy_value>>

\* ApplyModuleProtocol.execute(node): module_path, *args = prepare_inputs();
\* the result of call_module becomes the node's value; an error of call_module
\* ends it before set_value.  The engine runs it once the nodes among its args
\* are resolved.
ApplyModuleProtocol_execute(n) ==
    /\ phase = "run"
    /\ n \in NodesOf({"module"}) \ executed
    /\ \A i \in 1..Len(nodes[n].args) :
          nodes[n].args[i].kind = "node" => value[nodes[n].args[i].ref] # Unset
    /\ LET args == prepare_inputs(n)
           module_path == Head(args).data
           r == call_module(nodes[n].graph, module_path, Tail(args))
       IN IF r.error = "none"
          THEN LET ws == <<Write(n, r.ret)>>
               IN /\ value' = SetValues(value, ws)
                  /\ hist' = Counted(hist, ws)
                  /\ last' = [writes |-> ws, error |-> "none", calls |-> r.calls]
          ELSE /\ last' = Raised(r.error)
               /\ UNCHANGED <<value, hist>>
    /\ executed' = executed \cup {n}
    /\ UNCHANGED <<phase, nodes, attachments, release, hooks, incs, spent>>
    /\ UNCHANGED <<validate, PROTOCOLS, proxy_value>>

(* ------------------------------ registry ------------------------------ *)

\* Protocols registered after the import of the module: one under the name of
\* a built-in, two under one new name.
Registrable ==
    {Protocol("swap", "CustomSwap"), Protocol("custom", "CustomProtocol"),
     Protocol("custom", "OtherProtocol")}
\* Names looked up: those above and one that is never registered.
LookupNames == {"module", "lock", "grad", "swap", "bridge", "custom", "absent"}

\* register_protocol as it would be keeping an entry that exists.
register_protocol_keepsFirst(protocol) ==
    /\ PROTOCOLS' = IF protocol.name \in DOMAIN PROTOCOLS THEN PROTOCOLS
                    ELSE Registered(PROTOCOLS, protocol)
    /\ last' = NoOp
    /\ UNCHANGED <<phase, nodes, value, attachments, release, executed, hooks, hist,
                   incs, spent, validate, proxy_value>>

\* register_protocol(protocol).
register_protocol(protocol) ==
    /\ PROTOCOLS' = Registered(PROTOCOLS, protocol)
    /\ last' = NoOp
    /\ UNCHANGED <<phase, nodes, value, attachments, release, executed, hooks, hist,
                   incs, spent, validate, proxy_value>>

\* The engine's dispatch: PROTOCOLS[name], the KeyError of the dict for a name
\* that is not registered.
lookup(name) == IF name \in DOMAIN PROTOCOLS THEN PROTOCOLS[name] ELSE "KeyError"

Lookup(name) ==
    /\ last' = IF name \in DOMAIN PROTOCOLS THEN NoOp ELSE Raised(lookup(name))
    /\ UNCHANGED <<phase, nodes, value, attachments, release, executed, hooks, hist,
                   incs, spent, validate, proxy_value, PROTOCOLS>>

(* --------------------------- specifications --------------------------- *)

\* The Swap protocol alone: swaps on the graphs' plain nodes, executed and
\* consulted in any order.
NextSwap ==
    \/ \E n \in Ids : \E arg \in SwapArgs(nodes[n].graph) : SwapProtocol_add(n, arg)
    \/ StartRun
    \/ \E n \in Ids : ExecuteOp(n)
    \/ \E n \in Ids : EngineDiscard(n)
    \/ \E n \in Ids : SwapProtocol_execute(n)
    \/ \E g \in GraphIds : \E v \in ConsultValues : SwapProtocol_get_swap(g, v)

SpecSwap == InitSwap /\ [][NextSwap]_vars

\* The Grad protocol alone: reverse traversals (each begun by an increment)
\* deliver gradients to the tensors of the Grad nodes.
NextGrad ==
    \/ \E n \in Ids : GradProtocol_add(n)
    \/ \E g \in GraphIds : GradProtocol_increment(g)
    \/ StartRun
    \/ \E n \in Ids : ExecuteOp(n)
    \/ \E n \in Ids : EngineDiscard(n)
    \/ \E n \in Ids : GradProtocol_execute(n)
    \/ \E n \in Ids : \E v \in GradValues : GradOccurrence(n, v)

SpecGrad == InitGrad /\ [][NextGrad]_vars

\* Grad and Swap together: the callbacks of the Grad nodes consult the swaps.
NextGradSwap ==
    \/ \E n \in Ids : GradProtocol_add(n)
    \/ \E n \in Ids : \E arg \in SwapArgs(nodes[n].graph) : SwapProtocol_add(n, arg)
    \/ \E g \in GraphIds : phase = "build" /\ GradProtocol_increment(g)
    \/ StartRun
    \/ \E n \in Ids : ExecuteOp(n)
    \/ \E n \in Ids : EngineDiscard(n)
    \/ \E n \in Ids : SwapProtocol_execute(n)
    \/ \E g \in GraphIds : \E v \in ConsultValues : SwapProtocol_get_swap(g, v)
    \/ \E n \in Ids : GradProtocol_execute(n)
    \/ \E n \in Ids : \E v \in GradValues : GradOccurrence(n, v)

SpecGradSwap == InitGrad /\ [][NextGradSwap]_vars

\* The Lock and Bridge protocols between the graphs.
NextBridge ==
    \/ \E f \in Ids : \E t \in Ids : BridgeProtocol_add(f, t)
    \/ \E g \in GraphIds : BridgeProtocol_set_bridge(g)
    \/ StartRun
    \/ \E n \in Ids : ExecuteOp(n)
    \/ \E n \in Ids : EngineDiscard(n)
    \/ \E n \in Ids : LockProtocol_execute(n)
    \/ \E n \in Ids : BridgeProtocol_execute(n)

SpecBridge == Init /\ [][NextBridge]_vars

\* The Apply-Submodule protocol: roots are set, nodes added and executed.
NextModule ==
    \/ \E g \in GraphIds : \E m \in Roots : ApplyModuleProtocol_set_module(g, m)
    \/ \E g \in GraphIds : \E p \in ModulePaths : \E args \in ModuleArgs(g) :
          ApplyModuleProtocol_add(g, p, args)
    \/ StartRun
    \/ \E n \in Ids : ExecuteOp(n)
    \/ \E n \in Ids : EngineDiscard(n)
    \/ \E n \in Ids : ApplyModuleProtocol_execute(n)

SpecModule == InitModule /\ [][NextModule]_vars

\* All the protocols on one graph with a tensor node and a directory with
\* release; the graph holds at most MaxNodes nodes.
InitAll == InitWith(<<NodeRecord(1, 1, "op", <<>>)>>, {TRUE})

NextAll ==
    \/ \E n \in Ids : Len(nodes) < MaxNodes /\ GradProtocol_add(n)
    \/ \E n \in Ids : \E arg \in SwapArgs(nodes[n].graph) :
          Len(nodes) < MaxNodes /\ SwapProtocol_add(n, arg)
    \/ \E f \in Ids : \E t \in Ids : Len(nodes) + 1 < MaxNodes /\ BridgeProtocol_add(f, t)
    \/ \E args \in ModuleArgs(1) :
          Len(nodes) < MaxNodes /\ ApplyModuleProtocol_add(1, 1, args)
    \/ \E m \in Roots : ApplyModuleProtocol_set_module(1, m)
    \/ BridgeProtocol_set_bridge(1)
    \/ StartRun
    \/ \E n \in Ids : ExecuteOp(n)
    \/ \E n \in Ids : EngineDiscard(n)
    \/ \E n \in Ids : LockProtocol_execute(n)
    \/ \E n \in Ids : SwapProtocol_execute(n)
    \/ \E v \in ConsultValues : SwapProtocol_get_swap(1, v)
    \/ \E n \in Ids : GradProtocol_execute(n)
    \/ \E n \in Ids : \E v \in GradValues : GradOccurrence(n, v)
    \/ \E n \in Ids : BridgeProtocol_execute(n)
    \/ \E n \in Ids : ApplyModuleProtocol_execute(n)

SpecAll == InitAll /\ [][NextAll]_vars

\* The registry, while Lock and Bridge nodes are added and executed.
NextRegistry ==
    \/ \E protocol \in Registrable : register_protocol(protocol)
    \/ \E name \in LookupNames : Lookup(name)
    \/ NextBridge

SpecRegistry == Init /\ [][NextRegistry]_vars

(* ------------------------------ properties ---------------------------- *)

SwapNodes == NodesOf({"swap"})
GradNodes == NodesOf({"grad"})
BridgeNodes == NodesOf({"bridge"})

\* The graph's active swap: the node under the swap key, NoNode when there is none.
ActiveSwap(g) == Get(attachments[g], SwapKey, NoNode)

\* What a consultation with gradient v returns when swap node s fires: the
\* replacement stored in s (a node unwrapped to its value in val), on v's device
\* when both are tensors.
ReplacementOf(s, val, v) ==
    LET stored == IF nodes[s].args[2].kind = "node"
                  THEN val[nodes[s].args[2].ref] ELSE nodes[s].args[2].lit
    IN IF stored.tag = "tensor" /\ v.tag = "tensor"
       THEN Tensor(stored.data, v.device) ELSE stored

\* C1 (Swap one-shot): no Swap node supplies its replacement twice; and from a
\* consultation that returned a replacement until a Swap node executes on that
\* graph, no step fires a swap of the graph and every get_swap call on the graph
\* returns its input unchanged.
C1_SwapOneShot ==
    /\ [](\A s \in SwapNodes : hist[s].fired <= 1)
    /\ [][\A g \in GraphIds : spent[g] >= 1 =>
            /\ \A s \in SwapNodes :
                  nodes[s].graph = g => hist'[s].fired = hist[s].fired
            /\ \A v \in ConsultValues :
                  SwapProtocol_get_swap(g, v) =>
                      get_swap(attachments, value, g, v).ret = v]_vars

\* C1 witness: a swap has fired on a graph, the graph was consulted again with
\* no Swap node executed in between, and a second Swap node of the graph waits.
C1_Witness ==
    \E g \in GraphIds : \E s, t \in SwapNodes :
        /\ spent[g] = 2
        /\ nodes[s].graph = g /\ hist[s].fired = 1 /\ value[s] = TrueValue
        /\ nodes[t].graph = g /\ t \notin executed

\* C4 (Swap supersession): a Swap node B that executes while Swap node A is the
\* graph's swap sets A's value to False and becomes the graph's swap; a
\* consultation that finds B returns the value derived from B's replacement;
\* and a superseded Swap node never supplies its replacement.
C4_SwapSupersession ==
    /\ [](\A a \in SwapNodes : value[a] = FalseValue => hist[a].fired = 0)
    /\ [][/\ \A b \in SwapNodes :
               LET a == ActiveSwap(nodes[b].graph)
               IN (SwapProtocol_execute(b) /\ a # NoNode) =>
                     /\ value'[a] = FalseValue
                     /\ hist'[a].fired = 0
                     /\ ActiveSwap(nodes[b].graph)' = b
           /\ \A g \in GraphIds : \A v \in ConsultValues :
               (SwapProtocol_get_swap(g, v) /\ ActiveSwap(g) # NoNode) =>
                     /\ get_swap(attachments, value, g, v).ret
                            = ReplacementOf(ActiveSwap(g), value, v)
                     /\ hist'[ActiveSwap(g)].fired = 1]_vars

\* C4 witness: A was superseded by B on the same graph without firing, and B
\* has since supplied its replacement.
C4_Witness ==
    \E a, b \in SwapNodes :
        /\ a # b /\ nodes[a].graph = nodes[b].graph
        /\ value[a] = FalseValue /\ hist[a].fired = 0
        /\ value[b] = TrueValue /\ hist[b].fired = 1

\* The index a Grad node was created with: the second of its args.
IndexOf(n) == nodes[n].args[2].ref

\* C2 (Grad capture): a Grad node executed with index i has its value set
\* exactly once, by the (i+1)-th gradient of its tensor and to that gradient;
\* every other occurrence leaves the node's value and the count of its
\* set_value calls as they were.
C2_GradCapture ==
    /\ [](\A n \in GradNodes :
            /\ hist[n].sets <= 1
            /\ hist[n].caps = hist[n].sets
            /\ (n \in DOMAIN hooks /\ hist[n].occ > IndexOf(n)) <=> hist[n].sets = 1
            /\ hist[n].sets = 0 => value[n] = Unset)
    /\ [][\A n \in GradNodes : \A v \in GradValues :
            GradOccurrence(n, v) =>
                IF hist[n].occ = IndexOf(n)
                THEN value'[n] = v /\ hist'[n].sets = hist[n].sets + 1
                ELSE value'[n] = value[n] /\ hist'[n].sets = hist[n].sets]_vars

\* C2 witness: a Grad node with index 1 after three gradients of its tensor,
\* its value set once.
C2_Witness ==
    \E n \in GradNodes :
        /\ IndexOf(n) = 1 /\ n \in DOMAIN hooks
        /\ hist[n].occ = 3 /\ hist[n].sets = 1 /\ value[n] \in GradValues

\* C3 (Bridge transfer): an execute of a Bridge node on a graph with a
\* directory leaves in the node the value the source node held; with release
\* it sets the node first and the lock to None second, and without release it
\* sets the node only and the lock keeps its value.
C3_BridgeTransfer ==
    [][\A b \in BridgeNodes :
         (BridgeProtocol_execute(b) /\ has_bridge(nodes[b].graph)) =>
             LET src == hist[b].from
                 lock == hist[b].lock
             IN /\ value'[b] = value[src]
                /\ IF release
                   THEN /\ last'.writes = <<Write(b, value[src]), Write(lock, NoneValue)>>
                        /\ value'[lock] = NoneValue
                   ELSE /\ last'.writes = <<Write(b, value[src])>>
                        /\ value'[lock] = value[lock]
                        /\ hist'[lock].sets = 0]_vars

\* C3 witness: under release, the last step set a Bridge node to the value of
\* its source and then set the lock to None.
C3_Witness ==
    \E b \in BridgeNodes :
        /\ release /\ b \in executed
        /\ value[b] = OpValue(nodes[hist[b].from].graph)
        /\ last.writes = <<Write(b, value[b]), Write(hist[b].lock, NoneValue)>>

\* C5 as stated (Grad per-traversal invariant): in every reverse traversal a
\* Grad node with index i captures once if the traversal invoked its callback
\* at least i+1 times, and does not capture if it invoked it fewer times.
C5_PerTraversal ==
    \A n \in GradNodes :
        /\ hist[n].travCalls >= IndexOf(n) + 1 => hist[n].travCaps = 1
        /\ hist[n].travCalls < IndexOf(n) + 1 => hist[n].travCaps = 0

\* C5 amended (Grad invariant over all traversals): a Grad node with index i
\* captures at most once over all reverse traversals, at the (i+1)-th
\* invocation of its callback counted from its execute across traversals; the
\* callback is invoked no more than i+1 times; a traversal that alone invokes
\* it i+1 times captures in that traversal; and the value is unset as long as
\* there have been fewer than i+1 invocations.
C5_AcrossTraversals ==
    \A n \in GradNodes :
        /\ hist[n].caps <= 1
        /\ hist[n].calls <= IndexOf(n) + 1
        /\ hist[n].caps = 1 <=> hist[n].calls = IndexOf(n) + 1
        /\ hist[n].travCaps <= hist[n].caps
        /\ hist[n].travCalls >= IndexOf(n) + 1 => hist[n].travCaps = 1
        /\ hist[n].calls < IndexOf(n) + 1 => value[n] = Unset

\* C5 witness: a Grad node with a positive index captured in a reverse
\* traversal that invoked its callback fewer than index + 1 times.
C5_Witness ==
    \E n \in GradNodes :
        /\ IndexOf(n) >= 1
        /\ hist[n].travCaps = 1 /\ hist[n].travCalls < IndexOf(n) + 1
        /\ value[n] \in GradValues

\* C6 (Grad COUNTING state): an invocation of the callback with a positive
\* counter takes one off the counter, returns None so that the gradient goes on
\* unchanged, sets no node value, and leaves the attachments, the swaps'
\* firings and the consultations as they were.
C6_GradCounting ==
    [][\A n \in GradNodes : \A v \in GradValues :
         (GradOccurrence(n, v) /\ hooks[n].registered /\ hooks[n].backward_idx > 0) =>
             /\ hooks'[n] = [backward_idx |-> hooks[n].backward_idx - 1,
                             registered |-> TRUE]
             /\ grad(n, v).ret = NoneValue
             /\ Propagated(v, grad(n, v).ret) = v
             /\ last'.writes = <<>>
             /\ value' = value
             /\ attachments' = attachments
             /\ spent' = spent
             /\ \A m \in Ids : hist'[m].fired = hist[m].fired
                                /\ hist'[m].sets = hist[m].sets]_vars

\* C6 witness: a Grad node that has a listener, on a graph with an active swap,
\* whose callback has counted and still has to count.
C6_Witness ==
    \E n \in GradNodes :
        /\ n \in DOMAIN hooks /\ hooks[n].registered
        /\ hist[n].calls >= 1 /\ hooks[n].backward_idx = IndexOf(n) - hist[n].calls
        /\ attached(n) /\ ActiveSwap(nodes[n].graph) # NoNode
        /\ value[n] = Unset

\* C7 (Grad CAPTURE output): the capturing invocation first sets the Grad
\* node's value to the incoming gradient; with a listener on the node and an
\* active swap the gradient that goes on is that swap's replacement and the
\* swap fires; otherwise the gradient goes on unchanged and nothing fires; no
\* error is raised.
C7_GradCaptureOutput ==
    [][\A n \in GradNodes : \A v \in GradValues :
         (GradOccurrence(n, v) /\ hooks[n].registered /\ hooks[n].backward_idx = 0) =>
             LET s == ActiveSwap(nodes[n].graph)
                 out == Propagated(v, grad(n, v).ret)
             IN /\ Head(last'.writes) = Write(n, v)
                /\ value'[n] = v
                /\ last'.error = "none"
                /\ IF attached(n) /\ s # NoNode
                   THEN /\ out = ReplacementOf(s, value', v)
                        /\ hist'[s].fired = hist[s].fired + 1
                        /\ last'.writes = <<Write(n, v), Write(s, TrueValue)>>
                   ELSE /\ out = v
                        /\ last'.writes = <<Write(n, v)>>
                        /\ attachments' = attachments
                        /\ \A m \in Ids : hist'[m].fired = hist[m].fired]_vars

\* C7 witness: the last step captured a gradient in a Grad node and fired a
\* swap whose replacement differs from that gradient.
C7_Witness ==
    \E n \in GradNodes : \E s \in SwapNodes :
        /\ Len(last.writes) = 2
        /\ last.writes[1].node = n /\ last.writes[1].v \in GradValues
        /\ last.writes[2] = Write(s, TrueValue)
        /\ value[n] = last.writes[1].v
        /\ ReplacementOf(s, value, value[n]) # value[n]

\* C7 second witness: a Grad node with a listener captured with no active swap.
C7_WitnessNoSwap ==
    \E n \in GradNodes :
        /\ attached(n) /\ last.writes = <<Write(n, value[n])>>
        /\ value[n] \in GradValues

\* C8 (Grad counter): the counter of a graph, read with default 0, is the
\* number of increments of that graph, and an increment adds one to it and
\* leaves the other graphs' counters; a Grad node has args [node, n] with n the
\* number of increments before its add; and no step changes a node once it is
\* created.
C8_GradCounter ==
    /\ [](\A g \in GraphIds : Get(attachments[g], GradKey, 0) = incs[g])
    /\ [](\A n \in GradNodes :
            /\ Len(nodes[n].args) = 2
            /\ nodes[n].args[1].kind = "node"
            /\ nodes[n].args[1].ref \in NodesOf({"op"})
            /\ nodes[n].args[2] = IntArg(hist[n].born))
    /\ [][/\ \A n \in Ids : nodes'[n] = nodes[n]
          /\ \A g \in GraphIds : GradProtocol_increment(g) =>
                \A f \in GraphIds :
                    Get(attachments'[f], GradKey, 0)
                        = Get(attachments[f], GradKey, 0) + (IF f = g THEN 1 ELSE 0)
          /\ \A n \in Ids : GradProtocol_add(n) =>
                nodes'[Len(nodes) + 1].args
                    = <<NodeArg(n), IntArg(Get(attachments[nodes[n].graph], GradKey, 0))>>]_vars

\* C8 witness: Grad nodes created after no and after one increment, a second
\* increment after both, and the callback of the later one has counted.
C8_Witness ==
    \E n, m \in GradNodes :
        /\ nodes[n].args[2] = IntArg(0) /\ nodes[m].args[2] = IntArg(1)
        /\ incs[nodes[n].graph] = 2
        /\ m \in DOMAIN hooks /\ hooks[m].backward_idx = 0 /\ hist[m].calls = 1

\* C9 (Bridge misconfiguration): an execute of a Bridge node on a graph whose
\* attachments hold no directory raises the error of the missing key, sets no
\* node value in any graph, and leaves the Bridge node unset.
C9_BridgeMisconfigured ==
    [][\A b \in BridgeNodes :
         (BridgeProtocol_execute(b) /\ ~has_bridge(nodes[b].graph)) =>
             /\ last'.error = "KeyError"
             /\ last'.writes = <<>>
             /\ value' = value
             /\ value'[b] = Unset
             /\ value'[hist[b].lock] = Unset
             /\ \A m \in Ids : hist'[m].sets = hist[m].sets]_vars

\* C9 witness: under release, the last step raised the error in a Bridge node
\* whose source holds its value; the node is unset and the lock not released.
C9_Witness ==
    \E b \in BridgeNodes :
        /\ release /\ last.error = "KeyError"
        /\ b \in executed /\ ~has_bridge(nodes[b].graph)
        /\ value[hist[b].from] = OpValue(nodes[hist[b].from].graph)
        /\ value[b] = Unset /\ value[hist[b].lock] = Unset

\* The Lock nodes on node n.
LocksOn(n) == {l \in NodesOf({"lock"}) : nodes[l].args = <<NodeArg(n)>>}

\* C10 (Lock keep-alive across bridges): every Bridge node has a Lock node of
\* its own on its source; the value of an executed source is not discarded
\* while a Lock on it has no value; and with release every Bridge node that
\* executes on a graph with a directory receives the value of its source.
C10_LockKeepAlive ==
    /\ [](\A b \in BridgeNodes :
            /\ hist[b].lock \in LocksOn(hist[b].from)
            /\ \A c \in BridgeNodes : c # b => hist[c].lock # hist[b].lock)
    /\ [](\A n \in NodesOf({"op"}) :
            (n \in executed /\ \E l \in LocksOn(n) : value[l] = Unset)
                => value[n] = OpValue(nodes[n].graph))
    /\ [][\A b \in BridgeNodes :
            (BridgeProtocol_execute(b) /\ has_bridge(nodes[b].graph) /\ release) =>
                value'[b] = OpValue(nodes[hist[b].from].graph)]_vars

\* C10 witness: under release two Bridge nodes in different graphs have
\* transferred from one source, both hold its value, and both locks are
\* released.
C10_Witness ==
    \E b, c \in BridgeNodes :
        /\ release /\ b # c /\ hist[b].from = hist[c].from
        /\ nodes[b].graph # nodes[c].graph
        /\ {b, c} \subseteq executed
        /\ value[b] = OpValue(nodes[hist[b].from].graph) /\ value[c] = value[b]
        /\ value[hist[b].lock] = NoneValue /\ value[hist[c].lock] = NoneValue

ModuleNodes == NodesOf({"module"})

\* The path a Module node was added with, the graph's root object, and the real
\* values of the node's arguments after the path.
PathOf(n) == nodes[n].args[1].lit.data
RootOf(g) == attachments[g][ModuleKey]
RealArgs(n) ==
    [i \in 1..(Len(nodes[n].args) - 1) |->
        IF nodes[n].args[i + 1].kind = "node"
        THEN value[nodes[n].args[i + 1].ref] ELSE nodes[n].args[i + 1].lit]

\* C11 (Apply-Submodule execute): executing a Module node on a graph whose root
\* has the node's path makes exactly one forward call, on the sub-computation
\* at that path under the root, with the real values of the arguments after the
\* path and without the path, and sets the node's value to the result.
C11_ApplyModuleExecute ==
    [][\A n \in ModuleNodes :
         (/\ ApplyModuleProtocol_execute(n)
          /\ ModuleKey \in DOMAIN attachments[nodes[n].graph]
          /\ HasAttr(RootOf(nodes[n].graph), PathOf(n))) =>
             LET M == RootOf(nodes[n].graph)
                 xs == RealArgs(n)
             IN /\ last'.calls = <<Call(M, PathOf(n), xs)>>
                /\ \A i \in 1..Len(xs) : xs[i].tag \in {"tensor", "int"}
                /\ last'.error = "none"
                /\ last'.writes = <<Write(n, Forward(M, PathOf(n), xs))>>
                /\ value'[n] = Forward(M, PathOf(n), xs)
                /\ hist'[n].sets = 1]_vars

\* C11 witness: a Module node added with path 1, a plain node and a number has
\* just executed: one forward call with the plain node's value and the number,
\* and the node holds the result.
C11_Witness ==
    \E n \in ModuleNodes :
        /\ n \in executed /\ Len(nodes[n].args) = 3
        /\ Len(last.calls) = 1
        /\ last.calls[1].path = 1
        /\ last.calls[1].args = <<OpValue(nodes[n].graph), Scalar(7)>>
        /\ last.writes = <<Write(n, value[n])>>
        /\ value[n] = Forward(last.calls[1].module, 1, last.calls[1].args)

\* C12 (root object accessors): get_module raises the KeyError of the missing
\* key on a graph until set_module is called on it; after set_module(g, m) it
\* returns m on g, and no other step changes what it returns on any graph; and
\* executing a Module node on a graph without a root raises that error, makes
\* no forward call and sets no value.
C12_RootAccessors ==
    /\ \A g \in GraphIds : get_module(g) = Failed("KeyError")
    /\ [][\A g \in GraphIds :
            /\ \A m \in Roots :
                 ApplyModuleProtocol_set_module(g, m) =>
                     /\ get_module(g)' = Returned(m, <<>>)
                     /\ \A f \in GraphIds \ {g} : get_module(f)' = get_module(f)
            /\ (~ \E m \in Roots : ApplyModuleProtocol_set_module(g, m)) =>
                   (get_module(g).error = "KeyError" => get_module(g)' = get_module(g))
            /\ (\A f \in GraphIds : \A m \in Roots : ~ApplyModuleProtocol_set_module(f, m))
                   => get_module(g)' = get_module(g)
            /\ \A n \in ModuleNodes :
                 (/\ ApplyModuleProtocol_execute(n)
                  /\ nodes[n].graph = g
                  /\ get_module(g).error = "KeyError") =>
                     /\ last'.error = "KeyError"
                     /\ last'.calls = <<>> /\ last'.writes = <<>>
                     /\ value' = value /\ value'[n] = Unset]_vars

\* C12 witness: a Module node has just been executed on a graph without a root
\* and is unset after the error, while the other graph has a root.
C12_Witness ==
    \E n \in ModuleNodes : \E f \in GraphIds :
        /\ n \in executed /\ last.error = "KeyError"
        /\ get_module(nodes[n].graph).error = "KeyError"
        /\ value[n] = Unset
        /\ get_module(f).error = "none" /\ get_module(f).ret \in Roots

\* Whether add, given these arguments on graph g, gets a result from the
\* sub-computation: the graph has a root and the root has the path.
Resolvable(g, p) ==
    ModuleKey \in DOMAIN attachments[g] /\ HasAttr(RootOf(g), p)

DeviceFails(g) == get_module(g).error # "none" \/ RootOf(g).device = "none"

BuiltinNames == {"module", "lock", "grad", "swap", "bridge"}

\* C15 (protocol registry): after the import the registry holds the five
\* built-ins under their five names; register_protocol(p) makes the lookup of
\* p's name return p and leaves the lookup of every other name as it was; no
\* other step changes the registry and no step removes a name; and looking up a
\* name raises the KeyError of the dict exactly when the name is not registered.
C15_Registry ==
    /\ DOMAIN PROTOCOLS = BuiltinNames
    /\ Cardinality(DOMAIN PROTOCOLS) = 5
    /\ PROTOCOLS["module"] = "ApplyModuleProtocol" /\ PROTOCOLS["lock"] = "LockProtocol"
    /\ PROTOCOLS["grad"] = "GradProtocol" /\ PROTOCOLS["swap"] = "SwapProtocol"
    /\ PROTOCOLS["bridge"] = "BridgeProtocol"
    /\ [](lookup("absent") = "KeyError")
    /\ [][/\ \A protocol \in Registrable :
               register_protocol(protocol) =>
                   /\ lookup(protocol.name)' = protocol.class
                   /\ \A name \in LookupNames \ {protocol.name} :
                         lookup(name)' = lookup(name)
          /\ (\A protocol \in Registrable : ~register_protocol(protocol))
                 => PROTOCOLS' = PROTOCOLS
          /\ DOMAIN PROTOCOLS \subseteq DOMAIN PROTOCOLS'
          /\ \A name \in LookupNames :
               Lookup(name) =>
                   /\ PROTOCOLS' = PROTOCOLS
                   /\ last'.error = "KeyError" <=> name \notin DOMAIN PROTOCOLS]_vars

\* C15 witness: the built-in swap was overwritten by a later registration, the
\* new name holds the second of the protocols registered under it, the other
\* built-ins are as after the import, and a lookup has just raised.
C15_Witness ==
    /\ lookup("swap") = "CustomSwap" /\ lookup("custom") = "OtherProtocol"
    /\ lookup("module") = "ApplyModuleProtocol" /\ lookup("lock") = "LockProtocol"
    /\ lookup("grad") = "GradProtocol" /\ lookup("bridge") = "BridgeProtocol"
    /\ last.error = "KeyError"

LockNodes == NodesOf({"lock"})

\* The step is the execute of node n's own protocol on n; for a Grad node, also
\* an invocation of the callback that its execute registered.
OwnExecute(n) ==
    \/ ExecuteOp(n)
    \/ ApplyModuleProtocol_execute(n)
    \/ LockProtocol_execute(n)
    \/ SwapProtocol_execute(n)
    \/ BridgeProtocol_execute(n)
    \/ GradProtocol_execute(n)
    \/ \E v \in GradValues : GradOccurrence(n, v)

\* The step calls get_swap on graph g: directly, or from a Grad callback.
Consultation(g) ==
    \/ \E v \in ConsultValues : SwapProtocol_get_swap(g, v)
    \/ \E m \in GradNodes : \E v \in GradValues : nodes[m].graph = g /\ GradOccurrence(m, v)

\* C16 as stated (node value ownership): a node's value is set only by the
\* execute step of the node's own protocol on that node, and at most once.
C16_OwnExecuteOnly ==
    /\ [](\A n \in Ids : hist[n].sets <= 1)
    /\ [][\A n \in Ids : hist'[n].sets > hist[n].sets => OwnExecute(n)]_vars

\* C16 amended (node value writers): with every node executed at most once, a
\* node's value is set at most once; a plain, Module, Bridge or Grad node is set
\* by its own execute (a Grad node by the callback of its execute); a Swap node
\* is set by the execute of another Swap node of its graph, to False, or by a
\* consultation of its graph, to True, not by its own execute; a Lock node is
\* set by the execute of the Bridge node added with it, under release, to None;
\* and no add sets a value.
C16_ValueWriters ==
    /\ [](\A n \in Ids : hist[n].sets <= 1)
    /\ [][/\ phase = "build" => value' = value
          /\ \A n \in Ids :
               hist'[n].sets > hist[n].sets =>
                   /\ nodes[n].target \in {"op", "module", "bridge", "grad"} =>
                          OwnExecute(n) /\ ~GradProtocol_execute(n)
                   /\ nodes[n].target = "swap" =>
                          /\ ~SwapProtocol_execute(n)
                          /\ \/ /\ \E b \in SwapNodes \ {n} :
                                     nodes[b].graph = nodes[n].graph /\ SwapProtocol_execute(b)
                                /\ value'[n] = FalseValue
                             \/ /\ Consultation(nodes[n].graph)
                                /\ value'[n] = TrueValue
                   /\ nodes[n].target = "lock" =>
                          /\ release /\ value'[n] = NoneValue
                          /\ \E b \in BridgeNodes :
                                hist[b].lock = n /\ BridgeProtocol_execute(b)]_vars

\* C16 witness: a Swap node holds True and a Lock node holds None, neither set
\* by its own execute, next to a Bridge node that holds the transferred value.
C16_Witness ==
    \E s \in SwapNodes : \E b \in BridgeNodes :
        /\ value[s] = TrueValue /\ hist[s].sets = 1
        /\ value[hist[b].lock] = NoneValue /\ hist[hist[b].lock].sets = 1
        /\ value[b] = OpValue(1) /\ hist[b].sets = 1

\* C17 (Lock is a pure keep-alive marker): the execute of a Lock node changes
\* no value, attachment, node, callback or proxy value; a Lock node has exactly
\* one argument, a node; no node has a Lock node among its args, so that no
\* operation is handed a Lock node's value, which is only ever unset or None;
\* and a Bridge node receives the value of the Lock node's argument, which is
\* not the value the Lock node holds.
C17_LockPureMarker ==
    /\ [](\A l \in LockNodes :
            /\ Len(nodes[l].args) = 1
            /\ nodes[l].args[1].kind = "node"
            /\ nodes[l].args[1].ref \in Ids \ LockNodes
            /\ value[l] \in {Unset, NoneValue})
    /\ [](\A n \in Ids : \A i \in 1..Len(nodes[n].args) :
            nodes[n].args[i].kind = "node" => nodes[n].args[i].ref \notin LockNodes)
    /\ [][/\ \A l \in LockNodes :
               LockProtocol_execute(l) =>
                   /\ value' = value /\ attachments' = attachments
                   /\ nodes' = nodes /\ hooks' = hooks /\ proxy_value' = proxy_value
                   /\ last'.writes = <<>> /\ last'.error = "none"
                   /\ \A m \in Ids : hist'[m].sets = hist[m].sets
          /\ \A b \in BridgeNodes :
               (BridgeProtocol_execute(b) /\ has_bridge(nodes[b].graph)) =>
                   LET l == hist[b].lock
                   IN /\ value'[b] = value[nodes[l].args[1].ref]
                      /\ value'[b] # value[l]
                      /\ value'[b] = OpValue(nodes[nodes[l].args[1].ref].graph)]_vars

\* C17 witness: a Lock node has been executed and is unset, and the Bridge node
\* added with it has not run yet, while the locked node holds its value.
C17_Witness ==
    \E b \in BridgeNodes :
        /\ hist[b].lock \in executed /\ b \notin executed
        /\ value[hist[b].lock] = Unset
        /\ value[hist[b].from] = OpValue(1)
        /\ last = NoOp /\ phase = "run"

\* A Swap node that has executed and has no value yet.
Unresolved(s) == s \in executed /\ value[s] = Unset

\* C18 (Swap resolution invariant): with every Swap node executed at most
\* once, an executed Swap node is unset exactly while it is its graph's swap,
\* so that a graph has at most one such node; and an executed Swap node that is
\* not its graph's swap has been set exactly once, to True having fired once
\* or to False having never fired.
C18_SwapResolution ==
    \A g \in GraphIds :
        LET mine == {s \in SwapNodes : nodes[s].graph = g}
        IN /\ Cardinality({s \in mine : Unresolved(s)}) <= 1
           /\ ActiveSwap(g) # NoNode =>
                 ActiveSwap(g) \in mine /\ Unresolved(ActiveSwap(g))
           /\ \A s \in mine :
                 /\ Unresolved(s) => ActiveSwap(g) = s /\ hist[s].sets = 0
                 /\ s \notin executed => value[s] = Unset /\ hist[s].sets = 0
                 /\ (s \in executed /\ ActiveSwap(g) # s) =>
                       /\ hist[s].sets = 1
                       /\ \/ value[s] = TrueValue /\ hist[s].fired = 1
                          \/ value[s] = FalseValue /\ hist[s].fired = 0

\* C18 witness: on one graph a superseded Swap node holds False, a fired one
\* holds True, and a third is the graph's swap, unset.
C18_Witness ==
    \E a, b, c \in SwapNodes :
        /\ nodes[a].graph = nodes[b].graph /\ nodes[b].graph = nodes[c].graph
        /\ value[a] = FalseValue /\ value[b] = TrueValue
        /\ ActiveSwap(nodes[c].graph) = c /\ value[c] = Unset

\* The node a Swap node was added on: the first of its args.
TargetOf(s) == nodes[s].args[1].ref

\* C19 (Grad substitution target): a capturing Grad node that propagates a
\* replacement propagates that of a Swap node added on itself; and its capture
\* neither fires nor clears a graph's swap that was added on another node.
C19_GradSubstitutionTarget ==
    [][\A n \in GradNodes : \A v \in GradValues :
         (GradOccurrence(n, v) /\ hooks[n].registered /\ hooks[n].backward_idx = 0) =>
             LET s == ActiveSwap(nodes[n].graph)
             IN (s # NoNode /\ TargetOf(s) # n) =>
                    /\ hist'[s].fired = hist[s].fired
                    /\ value'[s] = value[s]
                    /\ ActiveSwap(nodes[n].graph)' = s
                    /\ Propagated(v, grad(n, v).ret) = v]_vars

\* C20 (Grad capture without a listener): a capture by a Grad node that has no
\* listener leaves the attachments and the value of every Swap node as they
\* were, and a swap that was the graph's swap supplies its replacement to a
\* consultation made right after the capture.
C20_CaptureWithoutListener ==
    [][\A n \in GradNodes : \A v \in GradValues :
         (/\ GradOccurrence(n, v)
          /\ hooks[n].registered /\ hooks[n].backward_idx = 0
          /\ ~attached(n)) =>
             LET g == nodes[n].graph
                 s == ActiveSwap(g)
             IN /\ attachments' = attachments
                /\ \A t \in SwapNodes : value'[t] = value[t] /\ hist'[t].fired = hist[t].fired
                /\ spent' = spent
                /\ Propagated(v, grad(n, v).ret) = v
                /\ s # NoNode =>
                     \A w \in ConsultValues :
                         /\ get_swap(attachments', value', g, w).swap = s
                         /\ get_swap(attachments', value', g, w).ret
                                = ReplacementOf(s, value', w)]_vars

\* C20 witness: a Grad node without a listener has just captured on a graph
\* whose swap is still in place and unset.
C20_Witness ==
    \E n \in GradNodes :
        /\ ~attached(n)
        /\ last.writes = <<Write(n, value[n])>> /\ value[n] \in GradValues
        /\ hist[n].caps = 1
        /\ ActiveSwap(nodes[n].graph) \in SwapNodes
        /\ value[ActiveSwap(nodes[n].graph)] = Unset

Next == NextGradSwap \/ NextGrad \/ NextSwap \/ NextBridge \/ NextModule \/ NextRegistry
            \/ NextAll

Spec == Init /\ [][Next]_vars

====
